---- MODULE Spec2Model ----
(***************************************************************************)
(* Model of versioned-api-router: the version matcher (validateVersion,    *)
(* semverizeVersion), the request-time version resolver (parseVersion),    *)
(* the router facade (Router, parseParams, generateRouter), the endpoint   *)
(* registry (Endpoints) and the entry of the parameter pipeline (verify).  *)
(*                                                                         *)
(* Strings that carry a version are modelled by their split at '.': a      *)
(* sequence of components.  A component >= 0 is the decimal text of that   *)
(* number, WordComp is an alphabetic word (such as "undefined"), EmptyComp *)
(* is the empty text.  Components are single digits (MaxComp <= 9).        *)
(***************************************************************************)
EXTENDS Integers, Sequences, FiniteSets, TLC

\* ---------------------------------------------------------------- bounds
\* largest numeric component of a version text
MaxComp == 2
\* most components of an incoming version text
MaxLen == 3
\* most elements of an accepted-version list
MaxList == 2

\* ------------------------------------------------------- values and texts
\* an alphabetic component: what '' + undefined yields ("undefined")
WordComp == -1
\* the component of the empty string: ''.split('.') is ['']
EmptyComp == -2
\* parseInt / parseFloat of a text that does not start with a number
NaN == -1

\* the JS value undefined (no value at all)
Undefined == <<>>
\* the JS empty string
EmptyString == <<EmptyComp>>

\* JS truthiness of a version value, as used by `version || ...`
Truthy(v) ==
    v # Undefined /\ v # EmptyString

\* '' + version
Stringify(v) ==
    IF v = Undefined THEN <<WordComp>> ELSE v

Comps == 0..MaxComp

\* the version texts a request may carry
VersionStrings ==
    UNION {[1..n -> Comps] : n \in 1..MaxLen} \cup {<<WordComp>>}

\* every value the matcher may be handed as incoming version
Incomings ==
    VersionStrings \cup {Undefined, EmptyString}

\* ------------------------------------------------- accepted-version specs
\* One element of an accepted-version list.  k is the JS typeof / class:
\*   "number": v is the decimal text of the number (<<1>> is 1, <<1,5>> is 1.5)
\*   "string": op "" | "^" | ">=" | "*" with partial version v is a semver
\*             range; op "/has/" | "/any/" is the text '/pattern/'
\*   "regexp": op "has" is /(a|b)/ over the characters alts, op "any" is /.*/
NumberSpec(v) ==
    [k |-> "number", op |-> "", v |-> v, alts |-> {}]

RangeSpec(op, v) ==
    [k |-> "string", op |-> op, v |-> v, alts |-> {}]

SlashSpec(op, alts) ==
    [k |-> "string", op |-> op, v |-> <<>>, alts |-> alts]

RegExpSpec(op, alts) ==
    [k |-> "regexp", op |-> op, v |-> <<>>, alts |-> alts]

\* acceptVersion.toString() for one element: a number prints its decimal text,
\* a RegExp prints '/source/', a string is itself
ElemToString(a) ==
    CASE a.k = "number" -> RangeSpec("", a.v)
      [] a.k = "regexp" -> SlashSpec(IF a.op = "any" THEN "/any/" ELSE "/has/", a.alts)
      [] OTHER -> a

\* Array.prototype.toString: the elements' texts joined by ','
ListToString(accept) ==
    [i \in 1..Len(accept) |-> ElemToString(accept[i])]

\* acceptVersion.startsWith('/') && acceptVersion.endsWith('/')
IsSlashString(a) ==
    a.k = "string" /\ a.op \in {"/has/", "/any/"}

\* new RegExp(acceptVersion.substr(1, acceptVersion.length - 2))
NewRegExp(a) ==
    RegExpSpec(IF a.op = "/any/" THEN "any" ELSE "has", a.alts)

\* RegExp.prototype.test(value): the value is converted to a string first
RegExpTest(re, value) ==
    LET s == Stringify(value)
    IN  re.op = "any" \/ \E i \in 1..Len(s) : s[i] \in re.alts

\* parseInt(value): the leading integer of the text, NaN when there is none
ParseInt(value) ==
    LET s == Stringify(value)
    IN  IF s[1] >= 0 THEN s[1] ELSE NaN

\* the value of a number spec, in tenths
NumberValue10(a) ==
    10 * a.v[1] + (IF Len(a.v) >= 2 THEN a.v[2] ELSE 0)

\* acceptVersion == parseInt(incomingVersion)
NumberMatches(a, incoming) ==
    LET n == ParseInt(incoming)
    IN  n # NaN /\ NumberValue10(a) = 10 * n

\* --------------------------------------------------------------- semver
\* a text semver accepts as a version: three numeric components
ValidVersion(s) ==
    Len(s) = 3 /\ \A i \in 1..3 : s[i] >= 0

VersionLT(a, b) ==
    \/ a[1] < b[1]
    \/ a[1] = b[1] /\ a[2] < b[2]
    \/ a[1] = b[1] /\ a[2] = b[2] /\ a[3] < b[3]

\* a partial version with its missing components set to 0
RangeLower(r) ==
    [i \in 1..3 |-> IF i <= Len(r.v) THEN r.v[i] ELSE 0]

\* the first version above the range (exclusive upper end)
RangeUpper(r) ==
    LET lo == RangeLower(r)
        n  == Len(r.v)
    IN  IF r.op = "^"
        THEN IF lo[1] > 0 \/ n = 1 THEN <<lo[1] + 1, 0, 0>>
             ELSE IF lo[2] > 0 \/ n = 2 THEN <<0, lo[2] + 1, 0>>
             ELSE <<0, 0, lo[3] + 1>>
        ELSE IF n = 1 THEN <<lo[1] + 1, 0, 0>>
             ELSE IF n = 2 THEN <<lo[1], lo[2] + 1, 0>>
             ELSE <<lo[1], lo[2], lo[3] + 1>>

\* semver.satisfies(version, range)
Satisfies(version, r) ==
    /\ ValidVersion(version)
    /\ CASE r.op = "*"  -> TRUE
         [] r.op = ">=" -> ~VersionLT(version, RangeLower(r))
         [] OTHER       -> /\ ~VersionLT(version, RangeLower(r))
                           /\ VersionLT(version, RangeUpper(r))

\* ------------------------------------------------------- version matcher
semverizeVersion_dropPad(version) ==
    LET s == Stringify(version)
    IN  CASE Len(s) = 1 -> s \o <<0, 0>>
          [] Len(s) = 2 -> s
          [] OTHER      -> s

\* exports.semverizeVersion
semverizeVersion(version) ==
    LET s == Stringify(version)
    IN  CASE Len(s) = 1 -> s \o <<0, 0>>
          [] Len(s) = 2 -> s \o <<0>>
          [] OTHER      -> s

\* The loop of validateVersion from element i on; incoming is the loop's
\* current incomingVersion (the string case overwrites it).  The value is
\* what the function reports through cb (or returns when it returns true).
RECURSIVE validateLoop(_, _, _)
validateLoop(incoming, accept, i) ==
    IF i > Len(accept)
    THEN Len(accept) = 0
    ELSE LET a == accept[i]
         IN  CASE IsSlashString(a) ->
                    RegExpTest(NewRegExp(a), incoming)
               [] a.k = "string" /\ ~IsSlashString(a) ->
                    LET sem == semverizeVersion(incoming)
                    IN  Satisfies(sem, a) \/ validateLoop(sem, accept, i + 1)
               [] a.k = "number" ->
                    NumberMatches(a, incoming) \/ validateLoop(incoming, accept, i + 1)
               [] OTHER ->
                    RegExpTest(a, incoming) \/ validateLoop(incoming, accept, i + 1)

\* exports.validateVersion(incomingVersion, acceptVersions, cb), acceptVersions
\* a list: the truth value handed to cb
validateVersion(incomingVersion, acceptVersions) ==
    validateLoop(incomingVersion, acceptVersions, 1)

\* ------------------------------------------------------ parameter values
\* A text (a JS string of the parameter pipeline) is the sequence of its
\* characters, each a one-character string.  A JS value is a record: t is its
\* kind, n the number in tenths (1 / 0 for true / false), s the text of a
\* string, a the elements of an array.  "throw" stands for a thrown error.
JsValue(t, n, s, a) ==
    [t |-> t, n |-> n, s |-> s, a |-> a]

JsUndefined == JsValue("undefined", 0, <<>>, <<>>)

JsThrow == JsValue("throw", 0, <<>>, <<>>)

JsNumber(n) == JsValue("number", n, <<>>, <<>>)

JsBoolean(b) == JsValue("boolean", IF b THEN 1 ELSE 0, <<>>, <<>>)

JsString(s) == JsValue("string", 0, s, <<>>)

JsArray(a) == JsValue("array", 0, <<>>, a)

\* ToBoolean(value): what `value && ...`, `!value` and `if (value)` test
JsTruthy(value) ==
    CASE value.t = "undefined" -> FALSE
      [] value.t = "number"    -> value.n # 0
      [] value.t = "boolean"   -> value.n = 1
      [] value.t = "string"    -> Len(value.s) > 0
      [] OTHER                 -> TRUE

Digits == <<"0", "1", "2", "3", "4", "5", "6", "7", "8", "9">>

IsDigit(c) == \E i \in 1..10 : Digits[i] = c

DigitValue(c) == (CHOOSE i \in 1..10 : Digits[i] = c) - 1

UpperCase == <<"T", "R", "U", "E", "F", "A", "L", "S", "Y", "N", "O">>

LowerCase == <<"t", "r", "u", "e", "f", "a", "l", "s", "y", "n", "o">>

\* String.prototype.toLowerCase
toLowerCase(text) ==
    [i \in 1..Len(text) |->
        IF \E k \in 1..Len(UpperCase) : UpperCase[k] = text[i]
        THEN LowerCase[CHOOSE k \in 1..Len(UpperCase) : UpperCase[k] = text[i]]
        ELSE text[i]]

\* String.prototype.trim
RECURSIVE trim(_)
trim(text) ==
    IF text = <<>> THEN text
    ELSE IF Head(text) = " " THEN trim(Tail(text))
    ELSE IF text[Len(text)] = " " THEN trim(SubSeq(text, 1, Len(text) - 1))
    ELSE text

\* String.prototype.split(','): the texts between the commas
RECURSIVE split(_, _)
split(text, from) ==
    LET commas == {i \in from..Len(text) : text[i] = ","}
    IN  IF commas = {} THEN <<SubSeq(text, from, Len(text))>>
        ELSE LET c == CHOOSE i \in commas : \A j \in commas : i <= j
             IN  <<SubSeq(text, from, c - 1)>> \o split(text, c + 1)

\* the number written by the digits text[i..j-1]
RECURSIVE DigitsValue(_, _, _)
DigitsValue(text, i, j) ==
    IF j <= i THEN 0
    ELSE 10 * DigitsValue(text, i, j - 1) + DigitValue(text[j - 1])

\* the first position from i on that holds no digit
RECURSIVE DigitsEnd(_, _)
DigitsEnd(text, i) ==
    IF i > Len(text) \/ ~IsDigit(text[i]) THEN i ELSE DigitsEnd(text, i + 1)

\* parseFloat(value) (whole = FALSE) and parseInt(value) (whole = TRUE) with
\* the isNaN test that follows them in parseValue: the number, undefined when
\* the text does not start with one.  Leading blanks are skipped, the integer
\* part is read, parseFloat reads a fraction after '.' (its first digit is
\* kept: numbers are tenths).  A number is its own value, true / false /
\* undefined are no numbers.
ParseNumber(value, whole) ==
    CASE value.t = "number" ->
            IF whole THEN JsNumber(10 * (value.n \div 10)) ELSE value
      [] value.t = "string" ->
            LET text == value.s
                nb   == {i \in 1..Len(text) : text[i] # " "}
                i0   == IF nb = {} THEN Len(text) + 1
                        ELSE CHOOSE i \in nb : \A j \in nb : i <= j
                i1   == DigitsEnd(text, i0)
                frac == IF ~whole /\ i1 + 1 <= Len(text) /\ text[i1] = "."
                           /\ IsDigit(text[i1 + 1])
                        THEN DigitValue(text[i1 + 1]) ELSE 0
            IN  IF i1 = i0 THEN JsUndefined
                ELSE JsNumber(10 * DigitsValue(text, i0, i1) + frac)
      [] OTHER -> JsUndefined

\* the words parseValue reads as true and as false
TrueWords ==
    {<<"t", "r", "u", "e">>, <<"t">>, <<"y", "e", "s">>, <<"y">>, <<"1">>}

FalseWords ==
    {<<"f", "a", "l", "s", "e">>, <<"f">>, <<"n", "o">>, <<"n">>, <<"0">>}

\* the scalar part of parseValue (its switch over the type)
ParseScalar(type, value) ==
    CASE type = "string" ->
            IF value.t = "string" /\ Len(value.s) > 0 THEN value ELSE JsUndefined
      [] type \in {"bool", "boolean"} ->
            IF ~JsTruthy(value) THEN JsUndefined
            ELSE IF value.t # "string" THEN JsThrow
            ELSE LET word == toLowerCase(trim(value.s))
                 IN  IF word \in TrueWords THEN JsBoolean(TRUE)
                     ELSE IF word \in FalseWords THEN JsBoolean(FALSE)
                     ELSE JsUndefined
      [] type \in {"number", "float", "double"} -> ParseNumber(value, FALSE)
      [] type \in {"integer", "short"} -> ParseNumber(value, TRUE)
      [] OTHER -> JsThrow

\* an array of parsed entries; the error of an entry is the error of the whole
ArrayOf(entries) ==
    IF \E i \in 1..Len(entries) : entries[i] = JsThrow THEN JsThrow
    ELSE JsArray(entries)

\* exports.parseValue(type, value, array)
parseValue(type, value, array) ==
    IF value.t = "array"
    THEN ArrayOf([i \in 1..Len(value.a) |-> ParseScalar(type, value.a[i])])
    ELSE IF JsTruthy(value) /\ array
    THEN IF value.t # "string" THEN JsThrow
         ELSE LET parts == split(value.s, 1)
              IN  ArrayOf([i \in 1..Len(parts) |-> ParseScalar(type, JsString(parts[i]))])
    ELSE ParseScalar(type, value)

\* ------------------------------------------------- parameter definitions
\* A parameter as given in api.params.  k = "string": the text
\* TYPE, TYPE[], TYPE(inner) or TYPE[](inner) as paramMatcher splits it:
\* brackets is match[2], parens is match[3], inner is match[4].  Type names
\* are written in lower case without blanks.  k = "object": an object with
\* the fields type, required, default, array, min, max, validate (a missing
\* field is undefined, a missing validate is "none").
StringParam(type, brackets, parens, inner) ==
    [k |-> "string", type |-> type, brackets |-> brackets, parens |-> parens,
     inner |-> inner, required |-> JsUndefined, default |-> JsUndefined,
     array |-> JsUndefined, min |-> JsUndefined, max |-> JsUndefined,
     validate |-> "none"]

ObjectParam(type, required, default, array, min, max, validate) ==
    [k |-> "object", type |-> type, brackets |-> FALSE, parens |-> FALSE,
     inner |-> <<>>, required |-> required, default |-> default,
     array |-> array, min |-> min, max |-> max, validate |-> validate]

\* a ParamDef; type "throw" stands for the error parseParam threw
ParamDef(type, default, required, array, min, max, validate) ==
    [type |-> type, default |-> default, required |-> required, array |-> array,
     min |-> min, max |-> max, validate |-> validate]

ParamThrow ==
    ParamDef("throw", JsUndefined, FALSE, FALSE, JsUndefined, JsUndefined, "none")

\* the values of `required` that the switch of parseParam lists:
\* 0, 'FALSE', 'false', 'F', 'f', 'no', 'n', false
RequiredOff ==
    {JsNumber(0), JsBoolean(FALSE),
     JsString(<<"F", "A", "L", "S", "E">>), JsString(<<"f", "a", "l", "s", "e">>),
     JsString(<<"F">>), JsString(<<"f">>), JsString(<<"n", "o">>), JsString(<<"n">>)}

parseParam_requiredWithoutDefault(str) ==
    LET def == parseValue(str.type,
                          IF str.k = "string" /\ str.parens THEN JsString(str.inner)
                          ELSE str.default,
                          IF str.k = "string" THEN str.brackets ELSE JsTruthy(str.array))
    IN  IF def = JsThrow THEN ParamThrow
        ELSE ParamDef(str.type, def, ~JsTruthy(def),
                      IF str.k = "string" THEN str.brackets ELSE JsTruthy(str.array),
                      str.min, str.max, str.validate)

\* exports.parseParam(str)
parseParam(str) ==
    IF str.k = "string"
    THEN LET def == parseValue(str.type,
                               IF str.parens THEN JsString(str.inner) ELSE JsUndefined,
                               str.brackets)
         IN  IF def = JsThrow THEN ParamThrow
             ELSE ParamDef(str.type, def, ~str.parens, str.brackets,
                           JsUndefined, JsUndefined, "none")
    ELSE ParamDef(str.type,
                  IF JsTruthy(str.default) THEN str.default ELSE JsUndefined,
                  IF str.required \in RequiredOff THEN FALSE ELSE ~JsTruthy(str.default),
                  JsTruthy(str.array),
                  str.min, str.max, str.validate)

\* ------------------------------------------------------ extract and check
\* obj[key], undefined when the object has no such property
Lookup(obj, key) ==
    IF key \in DOMAIN obj THEN obj[key] ELSE JsUndefined

\* the loop of getParams over config.paramOrder from position i on; props are
\* the properties of req that paramOrder names, each an object of raw values
RECURSIVE getParamsFrom(_, _, _, _)
getParamsFrom(config, props, i, params) ==
    IF i > Len(config.paramOrder) THEN [threw |-> FALSE, params |-> params]
    ELSE LET obj    == props[config.paramOrder[i]]
             take   == {param \in DOMAIN obj :
                           /\ Lookup(params, param) = JsUndefined
                           /\ param \in DOMAIN config.params}
             parsed == [param \in take |->
                           parseValue(config.params[param].type, obj[param],
                                      config.params[param].array)]
         IN  IF \E param \in take : parsed[param] = JsThrow
             THEN [threw |-> TRUE, params |-> params]
             ELSE getParamsFrom(config, props, i + 1,
                      [param \in DOMAIN params \cup take |->
                          IF param \in take THEN parsed[param] ELSE params[param]])

\* exports.getParams(config, req)
getParams(config, props) ==
    getParamsFrom(config, props, 1, <<>>)

\* the validate hooks of the model, called as validate(value, param, paramConfig):
\* "fail" returns 'Test error', "pass" returns nothing, "echo" returns the
\* text made of the name and the type it was handed when the value is set and
\* the empty string when it is not
Hook(validate, value, param, paramConfig) ==
    CASE validate = "fail" -> JsString(<<"Test error">>)
      [] validate = "echo" -> IF value = JsUndefined THEN JsString(<<>>)
                              ELSE JsString(<<param, paramConfig.type>>)
      [] OTHER -> JsUndefined

\* an entry of the errors map; error "" marks a parameter without entry
MissingInfo(type, error, min, max) ==
    [type |-> type, error |-> error, min |-> min, max |-> max]

NoError ==
    MissingInfo("", JsUndefined, JsUndefined, JsUndefined)

\* value.length of a string or an array, in tenths
LengthOf(value) ==
    10 * (IF value.t = "array" THEN Len(value.a) ELSE Len(value.s))

\* the number a value is compared as by < and >: a number is itself, an
\* array of one number is that number, the empty array is 0
AsNumber(value) ==
    CASE value.t = "number" -> value
      [] value.t = "boolean" -> JsNumber(10 * value.n)
      [] value.t = "array" /\ Len(value.a) = 0 -> JsNumber(0)
      [] value.t = "array" /\ Len(value.a) = 1 /\ value.a[1].t = "number" -> value.a[1]
      [] OTHER -> JsUndefined

CheckParam_hookThenRequired(paramConfig, value, param) ==
    LET error == Hook(paramConfig.validate, value, param, paramConfig)
    IN  IF paramConfig.validate # "none" /\ JsTruthy(error)
        THEN MissingInfo(paramConfig.type, error, JsUndefined, JsUndefined)
        ELSE IF paramConfig.required /\ ~JsTruthy(value)
        THEN MissingInfo(paramConfig.type, JsString(<<"not set">>),
                         JsUndefined, JsUndefined)
        ELSE NoError

\* the body of the loop of checkParams for one parameter: its entry in errors
CheckParam(paramConfig, value, param) ==
    IF paramConfig.validate # "none"
    THEN LET error == Hook(paramConfig.validate, value, param, paramConfig)
         IN  IF JsTruthy(error)
             THEN MissingInfo(paramConfig.type, error, JsUndefined, JsUndefined)
             ELSE NoError
    ELSE LET notSet == IF paramConfig.required
                          /\ (~JsTruthy(value) \/ (value.t = "array" /\ Len(value.a) = 0))
                       THEN MissingInfo(paramConfig.type, JsString(<<"not set">>),
                                        JsUndefined, JsUndefined)
                       ELSE NoError
             over   == /\ JsTruthy(value)
                       /\ paramConfig.max.t = "number"
                       /\ CASE paramConfig.type = "string" ->
                                   LengthOf(value) > paramConfig.max.n
                            [] paramConfig.type = "number" ->
                                   /\ AsNumber(value) # JsUndefined
                                   /\ AsNumber(value).n > paramConfig.max.n
                            [] OTHER -> FALSE
             under  == /\ JsTruthy(value)
                       /\ paramConfig.min.t = "number"
                       /\ CASE paramConfig.type = "string" ->
                                   LengthOf(value) < paramConfig.min.n
                            [] paramConfig.type = "number" ->
                                   /\ AsNumber(value) # JsUndefined
                                   /\ AsNumber(value).n < paramConfig.min.n
                            [] OTHER -> FALSE
         IN  IF under
             THEN MissingInfo(paramConfig.type, JsString(<<"value below min value">>),
                              paramConfig.min, JsUndefined)
             ELSE IF over
             THEN MissingInfo(paramConfig.type, JsString(<<"value exceeds max value">>),
                              JsUndefined, paramConfig.max)
             ELSE notSet

\* exports.checkParams(config, params): the errors map
checkParams(config, params) ==
    LET failed == {param \in DOMAIN config.params :
                      CheckParam(config.params[param], Lookup(params, param), param) # NoError}
    IN  [param \in failed |->
            CheckParam(config.params[param], Lookup(params, param), param)]

fillParams_defaultFirst(config, params) ==
    [param \in DOMAIN params \cup DOMAIN config.params |->
        IF param \in DOMAIN config.params /\ config.params[param].default # JsUndefined
        THEN config.params[param].default
        ELSE Lookup(params, param)]

fillParams_withoutDefaults(config, params) ==
    params

\* exports.fillParams(config, params)
fillParams(config, params) ==
    [param \in DOMAIN params \cup DOMAIN config.params |->
        IF param \in DOMAIN config.params /\ Lookup(params, param) = JsUndefined
        THEN config.params[param].default
        ELSE params[param]]

\* ------------------------------------------------------------ the router
\* most registrations made on one router
MaxRegs == 2
\* most request sources that carry a version value in one request
MaxSources == 2

\* the value Endpoints.get yields when it found nothing (null / undefined)
NoConfig == 0
\* the value Endpoints.get yields when zero or several buckets matched: the
\* object it was collecting the buckets in, which is no endpoint configuration
Aggregate == -1

VARIABLES
    vIncoming, vAccept, vResult, \* the matcher called on its own
    configuration,   \* RouterConfig after Object.assign({}, defaultConfig, configuration)
    regs,            \* the registration calls made so far (parseParams' result each)
    routers,         \* generateRouter's this.routers: paths held and route stack of each
    stack,           \* the layers of the outer express router, in order
    mapping,         \* Endpoints._mapping as a set of (version, path, method, config)
    attempt,         \* the last registration call and the error it threw
    phase,           \* "setup", "routing" (a request is being dispatched), "done"
    req,             \* the request being dispatched
    idx,             \* express' position in the outer stack
    version,         \* parseVersion's local `version`, as of its last run
    matches,         \* what the validator reported in parseVersion's last run
    stamp,           \* req.incomingVersion / req.acceptedVersion
    res,             \* the response
    invoked,         \* the registrations whose handlers ran for this request, in order
    verified,        \* what verify did for this request, in order
    args,            \* req[config.paramMap] after each of those verify calls
    calls,           \* the terminal calls each of those verify calls made, in order
    env,             \* process.env.NODE_ENV
    listed,          \* what the last read of router.endpoints returned
    configs,         \* the registry called on its own: the config objects handed to add
    lastCall,        \* the last call of add, get or list and what it returned
    pSpecs,          \* the pipeline called on its own: api.params as given
    pOrder,          \* config.paramOrder
    pReq,            \* the properties of req that hold raw parameter values
    pDefs,           \* config.params after parseParam
    pParams,         \* what getParams returned
    pErrors,         \* what checkParams returned
    pArgs,           \* what fillParams returned
    pStage           \* "given", "parsed", "got", "checked", "filled", "threw"

vars ==
    <<vIncoming, vAccept, vResult, configuration, regs, routers, stack, mapping,
      attempt, phase, req, idx, version, matches, stamp, res, invoked, verified, args,
      calls, env, listed, configs, lastCall, pSpecs, pOrder, pReq, pDefs, pParams, pErrors, pArgs, pStage>>

matcherVars == <<vIncoming, vAccept, vResult>>

pipelineVars == <<pSpecs, pOrder, pReq, pDefs, pParams, pErrors, pArgs, pStage>>

setupVars == <<configuration, regs, routers, stack, mapping, attempt>>

requestVars ==
    <<phase, req, idx, version, matches, stamp, res, invoked, verified, args, calls>>

processVars == <<env>>

introspectionVars == <<listed>>

registryVars == <<configs, lastCall>>

Sources == {"params", "query", "cookie", "body", "header"}

\* a request none of whose sources holds a parameter value
NoProps ==
    [s \in Sources |-> <<>>]

\* const defaultConfig
defaultConfig ==
    [paramOrder |-> <<"params", "query", "cookie", "body", "header">>,
     responseHeader |-> TRUE,
     passVersion |-> TRUE,
     error |-> "none",
     success |-> "none",
     validate |-> "none"]

\* method.toUpperCase()
toUpperCase(method) ==
    CASE method = "get" -> "GET"
      [] method = "post" -> "POST"
      [] OTHER -> "ALL"

\* express: a route registered through `method` answers a request of `reqMethod`
MethodCovers(method, reqMethod) ==
    method = "all" \/ toUpperCase(method) = reqMethod

\* express path matching: '/:id' matches every one-segment path
PathMatches(pattern, path) ==
    pattern = path \/ pattern = "/:id"

\* express: does a route or layer answer the request.  A route under
\* '/v:' + param answers exactly the URLs that carry the version prefix.
RouteMatches(route, rq) ==
    /\ MethodCovers(route.method, rq.method)
    /\ PathMatches(route.path, rq.path)
    /\ route.prefixed = Truthy(rq.src["params"])

\* ------------------------------------------------------ endpoint registry
\* Endpoints.add: the buckets the configuration is stored under
AddVersions(versions) ==
    IF Len(versions) > 0 THEN ListToString(versions) ELSE <<RangeSpec("", <<0>>)>>

\* Endpoints.add(path, method, versions, config); config is named by its
\* registration
EndpointsAdd(map, path, method, versions, config) ==
    LET keys == {AddVersions(versions)[i] : i \in 1..Len(AddVersions(versions))}
        kept == {e \in map : ~(e.version \in keys /\ e.path = path
                               /\ e.method = toUpperCase(method))}
    IN  kept \cup {[version |-> k, path |-> path, method |-> toUpperCase(method),
                    config |-> config] : k \in keys}

\* Endpoints.get(path, method, incomingVersion = 0), path already unversioned
EndpointsGet(map, path, method, incomingVersion) ==
    LET incoming == IF incomingVersion = Undefined THEN <<0>> ELSE incomingVersion
        buckets  == {e.version : e \in map}
        hit      == {b \in buckets : validateVersion(incoming, <<b>>)}
        found(b) == {e \in map : e.version = b /\ e.path = path /\ e.method = method}
    IN  IF \E b \in hit : ~\E e \in map : e.version = b /\ e.path = path
        THEN NoConfig
        ELSE IF Cardinality(hit) = 1
        THEN LET b == CHOOSE b \in hit : TRUE
             IN  IF found(b) = {} THEN NoConfig
                 ELSE (CHOOSE e \in found(b) : TRUE).config
        ELSE Aggregate

\* Endpoints._unversion(path) on the paths of the model
unversion(path) ==
    IF path = "/v:v/test" THEN "/test" ELSE path

\* a call of the registry: op is "add", "get" or "list"; versions is the
\* list handed to add or the incoming version handed to get; config the
\* object handed to add; result what get or list returned
RegistryCall(op, path, method, versions, config, result) ==
    [op |-> op, path |-> path, method |-> method, versions |-> versions,
     config |-> config, result |-> result]

NoCall ==
    RegistryCall("none", "", "", <<>>, 0, {})

\* ------------------------------------------------------ parameter pipeline
\* res.status(..)...end() / res.end(..): the first response wins, a later one
\* changes nothing
Respond(r, status, by) ==
    IF r.headersSent THEN r
    ELSE [r EXCEPT !.headersSent = TRUE, !.status = status, !.endedBy = by]

\* the api configurations handed to a registration call, by name: "none" is
\* a call without one, "open" is {params: {}}, the others declare parameters
ApiParams(api) ==
    CASE api = "vars" -> [var1 |-> StringParam("number", FALSE, FALSE, <<>>),
                          var2 |-> StringParam("string", FALSE, TRUE, <<"f", "o", "o">>)]
      [] api = "one"  -> [a |-> StringParam("number", FALSE, TRUE, <<>>)]
      [] api = "two"  -> [b |-> StringParam("number", FALSE, TRUE, <<>>)]
      [] api \in {"need", "needE", "needS", "needV"} ->
                         [p |-> StringParam("number", FALSE, FALSE, <<>>)]
      [] api = "flag" -> [f |-> StringParam("bool", FALSE, FALSE, <<>>)]
      [] api = "typo" -> [p |-> StringParam("nubmer", FALSE, FALSE, <<>>)]
      [] OTHER -> <<>>

\* api.error, api.success, api.validate of those configurations: "needE"
\* brings an error hook, "needS" a success hook, "needV" a validator
ApiError(api) ==
    IF api = "needE" THEN "answer" ELSE "none"

ApiSuccess(api) ==
    IF api = "needS" THEN "proceed" ELSE "none"

ApiValidate(api) ==
    IF api = "needV" THEN "pass" ELSE "none"

\* a || b || c on hooks
FirstHook(a, b, c) ==
    IF a # "none" THEN a ELSE IF b # "none" THEN b ELSE c

\* the hooks configure stores on a parsed parameter whose own are `own`:
\*   parsed.error    = parsed.error | api.error || context.configuration.error
\*   parsed.validate = parsed.validate || api.validate || context.configuration.validate
\*   parsed.success  = parsed.success || api.success || context.configuration.success
\* (| is the bitwise or: of two hooks or undefined it is 0, which is falsy)
ParamHooks(api, own) ==
    [error    |-> configuration.error,
     validate |-> FirstHook(own.validate, ApiValidate(api), configuration.validate),
     success  |-> FirstHook(own.success, ApiSuccess(api), configuration.success)]

\* the hooks a parameter given as a text brings itself: none
NoHooks ==
    [error |-> "none", validate |-> "none", success |-> "none"]

\* exports.configure: the configuration it stores for a registration, with
\* api.paramOrder taken from the router's and every parameter parsed
configure(api) ==
    [paramOrder |-> configuration.paramOrder,
     error      |-> ApiError(api),
     success    |-> ApiSuccess(api),
     params     |-> [param \in DOMAIN ApiParams(api) |->
                       [parseParam(ApiParams(api)[param])
                           EXCEPT !.validate = ParamHooks(api, [NoHooks EXCEPT !.validate = @]).validate]]]

\* req[config.paramMap] while nothing has set it
NoArgs ==
    [set |-> FALSE, value |-> <<>>]

\* the value of an expression computed once and held in a local: the
\* element of a one-element set
Only(S) ==
    CHOOSE value \in S : TRUE

\* what verify hands to a hook or to responder.respond: nothing (null), the
\* exception caught, the errors map, or a response body
Payload(shape, error, params) ==
    [shape |-> shape, error |-> error, params |-> params]

NoPayload ==
    Payload("null", "", <<>>)

\* one terminal call of verify: next(), config.error(..), config.success(..)
\* or responder.respond(.., 422)
Call(kind, payload) ==
    [kind |-> kind, payload |-> payload]

\* exports.verify for the route of registration `route.reg`, statement by
\* statement from its end to its start.  Its result: the terminal calls it
\* made, the entry for `verified` (the configuration it looked up and how it
\* ended: "next" passed on, "422" rejected, "error" and "success" the hook
\* called) and req[config.paramMap] afterwards, `before` being what that held
\* before.
verifyEnd(route, config, made, after) ==
    [entry |-> [route |-> route.reg, config |-> config,
                outcome |-> IF Len(made) = 1 THEN made[1].kind ELSE "several"],
     args  |-> after,
     calls |-> made]

\* catch (e) { if (config.error) return config.error(e, req, res, next);
\*             return responder.respond(req, res, {error: e.message, params: {}}, 422) }
verifyThrown(route, config, hook, before) ==
    IF hook # "none"
    THEN verifyEnd(route, config, <<Call("error", Payload("Error", "message", <<>>))>>, before)
    ELSE verifyEnd(route, config, <<Call("422", Payload("body", "message", <<>>))>>, before)

\* if (Object.keys(missing).length): the error hook, or 422 with the errors
\* in development mode and without body otherwise
verifyMissing_alsoNext(route, config, c, missing, before) ==
    verifyEnd(route, config, <<Call("422", NoPayload), Call("next", NoPayload)>>, before)

verifyMissing(route, config, c, missing, before) ==
    IF c.error # "none"
    THEN verifyEnd(route, config, <<Call("error", Payload("missing", "", missing))>>, before)
    ELSE IF env = "development"
    THEN verifyEnd(route, config,
                   <<Call("422", Payload("body", "Required parameters are missing", missing))>>,
                   before)
    ELSE verifyEnd(route, config, <<Call("422", NoPayload)>>, before)

\* req[config.paramMap] = fillParams(config, params);
\* if (config.success) return config.success(null, req, res, next); next()
verifyChecked(route, config, c, params, missing, before) ==
    IF DOMAIN missing # {} THEN verifyMissing(route, config, c, missing, before)
    ELSE verifyEnd(route, config,
                   <<Call(IF c.success # "none" THEN "success" ELSE "next", NoPayload)>>,
                   [set |-> TRUE, value |-> fillParams(c, params)])

\* missing = checkParams(config, params) unless getParams threw
verifyGot(route, config, c, got, before) ==
    IF got.threw THEN verifyThrown(route, config, c.error, before)
    ELSE Only({verifyChecked(route, config, c, got.params, missing, before) :
                  missing \in {checkParams(c, got.params)}})

\* try { params = getParams(config, req) }
verifyFound(route, rq, config, c, before) ==
    Only({verifyGot(route, config, c, got, before) : got \in {getParams(c, rq.vals)}})

\* if (!config) return next().  An aggregate has no paramOrder, so getParams
\* throws on it, and it has no error hook.
verifyConfig(route, rq, config, before) ==
    IF config = NoConfig THEN verifyEnd(route, config, <<Call("next", NoPayload)>>, before)
    ELSE IF config = Aggregate THEN verifyThrown(route, config, "none", before)
    ELSE Only({verifyFound(route, rq, config, c, before) :
                  c \in {configure(regs[config].api)}})

\* exports.verify(req, res, next)
verify(route, rq, incomingVersion, before) ==
    Only({verifyConfig(route, rq, config, before) :
             config \in {EndpointsGet(mapping, route.path, rq.method, incomingVersion)}})

\* the introspection accessor before it was read
NotListed ==
    [read |-> FALSE, prefix |-> "", at |-> 0, map |-> {}]

\* path.join(prefix, prop) for a prefix that is empty or a normalized
\* absolute path and an absolute prop
pathJoin(prefix, prop) ==
    IF prefix = "" THEN prop ELSE prefix \o prop

\* Endpoints.list(prefix, version = 0): the entries of the bucket of
\* `version` under prefixed paths, each configuration with its versions
EndpointsList(map, prefix, bucket) ==
    {[path |-> pathJoin(prefix, e.path), method |-> e.method, config |-> e.config,
      versions |-> AddVersions(regs[e.config].version)] :
        e \in {f \in map : f.version = bucket}}

\* ------------------------------------------------------------ sub-routers
\* methodRouter.handle(req, res, next): the routes of one generated router in
\* order; each matching route runs apiHandler and then the registration's
\* handler, which either ends the response or calls next()
RECURSIVE RouterHandle(_, _, _, _, _)
RECURSIVE RouteHandlers(_, _, _, _, _)
RECURSIVE AfterVerify(_, _, _, _, _, _)
RouterHandle(routes, i, rq, incomingVersion, st) ==
    IF i > Len(routes) THEN st
    ELSE IF ~RouteMatches(routes[i], rq)
    THEN RouterHandle(routes, i + 1, rq, incomingVersion, st)
    ELSE LET r == routes[i].reg
         IN  IF regs[r].api = "none"
             THEN RouteHandlers(routes, i, rq, incomingVersion, st)
             ELSE Only({AfterVerify(routes, i, rq, incomingVersion,
                                    [st EXCEPT !.verified = Append(@, v.entry),
                                               !.args = Append(@, v.args),
                                               !.calls = Append(@, v.calls)],
                                    v.entry.outcome) :
                        v \in {verify(routes[i], rq, incomingVersion,
                                      IF st.args = <<>> THEN NoArgs
                                      ELSE st.args[Len(st.args)])}})

\* what follows verify: its 422 ends the response, an error hook answers
\* with 400, a success hook calls next() as verify itself does otherwise
AfterVerify(routes, i, rq, incomingVersion, st, outcome) ==
    CASE outcome = "422"   -> [st EXCEPT !.res = Respond(@, 422, routes[i].reg)]
      [] outcome = "error" -> [st EXCEPT !.res = Respond(@, 400, routes[i].reg)]
      [] OTHER             -> RouteHandlers(routes, i, rq, incomingVersion, st)

\* the registration's handler after apiHandler called next(): it either ends
\* the response or calls next(), which takes the router to its next route
RouteHandlers(routes, i, rq, incomingVersion, st) ==
    LET r  == routes[i].reg
        s2 == [st EXCEPT !.invoked = Append(@, r)]
    IN  IF regs[r].handler = "end"
        THEN [s2 EXCEPT !.res = Respond(@, 200, r)]
        ELSE RouterHandle(routes, i + 1, rq, incomingVersion, s2)

\* generateRouter(endpoint, method): the index of the first router that does
\* not hold the endpoint for the method yet, Len + 1 when a new one is needed
generateRouter(rs, endpoint, method) ==
    LET free == {i \in 1..Len(rs) : <<method, endpoint>> \notin rs[i].paths}
    IN  IF free # {} THEN CHOOSE i \in free : \A j \in free : i <= j
        ELSE Len(rs) + 1

\* --------------------------------------------------------- version resolver
\* the value of one source of the request: req.get(header) for the header,
\* req[params] && req[params][param] for the others
SourceValue(rq, source) ==
    rq.src[source]

\* the loop of parseVersion over paramOrder from position i on
RECURSIVE ExtractVersion_lastWins(_, _, _, _)
ExtractVersion_lastWins(rq, order, i, v) ==
    IF i > Len(order) THEN v
    ELSE ExtractVersion_lastWins(rq, order, i + 1,
             IF Truthy(SourceValue(rq, order[i])) THEN SourceValue(rq, order[i]) ELSE v)

RECURSIVE ExtractVersion(_, _, _, _)
ExtractVersion(rq, order, i, v) ==
    IF i > Len(order) THEN v
    ELSE ExtractVersion(rq, order, i + 1,
             IF Truthy(v) THEN v ELSE SourceValue(rq, order[i]))

\* the object parseVersion is bound to in Router: {configuration,
\* acceptVersion, router}
BoundThis(layer) ==
    [configuration |-> configuration,
     acceptVersion |-> regs[layer.reg].version,
     router        |-> regs[layer.reg].router]

\* this.acceptedVersion: a property read; undefined when the object has no
\* property of that name
ReadAcceptedVersion(this) ==
    IF "acceptedVersion" \in DOMAIN this
    THEN [defined |-> TRUE, value |-> this.acceptedVersion]
    ELSE [defined |-> FALSE, value |-> <<>>]

\* (this.configuration.validate || exports.validateVersion): the validator's
\* answer through its callback
Validator(this, incoming) ==
    validateVersion(incoming, this.acceptVersion)

\* does the validator call its callback: exports.validateVersion does, a
\* configured validate that is a parameter validator (value, name, config)
\* takes the callback for the ParamDef and never calls it
ValidatorAnswers(this) ==
    this.configuration.validate = "none"

\* if (this.acceptVersion && !res.headersSent && this.configuration.responseHeader)
\*     res.set(this.configuration.responseHeader, this.acceptVersion.toString())
\* (an array, empty or not, is truthy)
SetResponseHeader_ignoreSent(this, r) ==
    IF this.configuration.responseHeader
    THEN [r EXCEPT !.header = [set |-> TRUE, value |-> ListToString(this.acceptVersion)]]
    ELSE r

SetResponseHeader(this, r) ==
    IF ~r.headersSent /\ this.configuration.responseHeader
    THEN [r EXCEPT !.header = [set |-> TRUE, value |-> ListToString(this.acceptVersion)]]
    ELSE r

\* req before parseVersion ran on it
NoStamp ==
    [set |-> FALSE, incomingVersion |-> Undefined,
     acceptedVersion |-> [defined |-> FALSE, value |-> <<>>]]

\* a fresh response
NoResponse ==
    [headersSent |-> FALSE, status |-> 0, endedBy |-> 0,
     header |-> [set |-> FALSE, value |-> <<>>]]

NoRequest ==
    [method |-> "GET", path |-> "/test", src |-> [s \in Sources |-> Undefined],
     vals |-> NoProps]

\* a call router[method](path, extra, ...): `extra` is the typeof of an
\* argument beyond versions, api configuration and handlers ("none": there
\* is no such argument), `error` what the call threw ("none": it returned)
Attempt(method, path, extra, api, error) ==
    [method |-> method, path |-> path, extra |-> extra, api |-> api, error |-> error]

NoAttempt ==
    Attempt("", "", "none", "none", "none")

\* a first argument that is neither a string nor a RegExp
NotAPath == "(object)"

\* the paths of the model that start with '/v:' + configuration.param
VersionedPaths == {"/v:v/test"}

\* the typeof values that the switch of parseParams has no case for
UnsupportedTypes == {"boolean", "undefined", "symbol"}

\* exports.configure throws when parseParam throws for one of api.params
configureThrows(api) ==
    \E param \in DOMAIN ApiParams(api) : parseParam(ApiParams(api)[param]) = ParamThrow

RegistrationError_typeUnchecked(path, extra, api) ==
    IF path = NotAPath THEN "First parameter needs to be a path"
    ELSE IF path \in VersionedPaths THEN "Versioned paths will be generated automatically"
    ELSE IF extra \in UnsupportedTypes THEN "Unsupported router parameter"
    ELSE "none"

\* the error router[method](path, ...args) throws, in the order of its checks:
\* the path, the versioned prefix, parseParams, apiVerifier.configure
RegistrationError(path, extra, api) ==
    IF path = NotAPath THEN "First parameter needs to be a path"
    ELSE IF path \in VersionedPaths THEN "Versioned paths will be generated automatically"
    ELSE IF extra \in UnsupportedTypes THEN "Unsupported router parameter"
    ELSE IF configureThrows(api) THEN "Invalid type defined for parameter"
    ELSE "none"

\* ---------------------------------------------------------------- actions
\* router[method](path, ...args): parseParams sorted the arguments into
\* version list, api configuration and handlers
Register(method, path, versions, api, handler) ==
    /\ phase = "setup"
    /\ Len(regs) < MaxRegs
    /\ RegistrationError(path, "none", api) = "none"
    /\ LET id  == Len(regs) + 1
           r   == generateRouter(routers, path, method)
           rs1 == IF r > Len(routers)
                  THEN Append(routers, [paths |-> {}, routes |-> <<>>])
                  ELSE routers
           pre == [method |-> method, path |-> path, prefixed |-> TRUE, reg |-> id]
           pln == [method |-> method, path |-> path, prefixed |-> FALSE, reg |-> id]
       IN  /\ regs' = Append(regs, [method |-> method, path |-> path,
                                    version |-> versions, api |-> api,
                                    handler |-> handler, router |-> r])
           /\ routers' = [rs1 EXCEPT ![r].paths = @ \cup {<<method, path>>},
                                     ![r].routes = @ \o <<pre, pln>>]
           /\ mapping' = IF api = "none" THEN mapping
                         ELSE EndpointsAdd(mapping, path, method, versions, id)
           /\ stack' = stack \o <<pre, pln>>
           /\ attempt' = Attempt(method, path, "none", api, "none")
    /\ UNCHANGED <<processVars, registryVars, introspectionVars, configuration, requestVars, matcherVars, pipelineVars>>

\* router[method](path, ...args) throwing: nothing has happened when the
\* path checks or parseParams throw; configure throws after getRouter has
\* noted the path in the sub-router it picked (a new one if all held it)
RegisterRejected(method, path, extra, api) ==
    /\ phase = "setup"
    /\ Len(routers) < MaxRegs
    /\ RegistrationError(path, extra, api) # "none"
    /\ LET r   == generateRouter(routers, path, method)
           rs1 == IF r > Len(routers)
                  THEN Append(routers, [paths |-> {}, routes |-> <<>>])
                  ELSE routers
       IN  routers' = IF RegistrationError(path, extra, api)
                            = "Invalid type defined for parameter"
                      THEN [rs1 EXCEPT ![r].paths = @ \cup {<<method, path>>}]
                      ELSE routers
    /\ attempt' = Attempt(method, path, extra, api, RegistrationError(path, extra, api))
    /\ UNCHANGED <<processVars, registryVars, introspectionVars, configuration, regs, stack, mapping,
                   requestVars, matcherVars, pipelineVars>>

\* config.versions after add: versions = versions.length ? versions : [ 0 ]
VersionsOrZero(versions) ==
    IF Len(versions) > 0 THEN versions ELSE <<NumberSpec(<<0>>)>>

\* endpoints.add(path, method, versions, config) called on the registry
\* directly; config is one of the objects handed over before or a new one
AddEndpoint(path, method, versions, config) ==
    /\ config \in 1..(Len(configs) + 1)
    /\ config <= MaxRegs
    /\ configs' = IF config > Len(configs)
                  THEN Append(configs, [versions |-> VersionsOrZero(versions)])
                  ELSE [configs EXCEPT ![config].versions = VersionsOrZero(versions)]
    /\ mapping' = EndpointsAdd(mapping, unversion(path), method, versions, config)
    /\ lastCall' = RegistryCall("add", path, method, versions, config, {})
    /\ UNCHANGED <<processVars, introspectionVars, configuration, regs, routers, stack,
                   attempt, requestVars, matcherVars, pipelineVars>>

\* endpoints.get(path, method, incomingVersion)
GetEndpoint(path, method, incomingVersion) ==
    /\ configs # <<>>
    /\ lastCall' = RegistryCall("get", path, method, incomingVersion, 0,
                                {EndpointsGet(mapping, unversion(path), method,
                                              incomingVersion)})
    /\ UNCHANGED <<processVars, introspectionVars, configs, setupVars, requestVars,
                   matcherVars, pipelineVars>>

\* endpoints.list(prefix)
ListRegistry(prefix) ==
    /\ configs # <<>>
    /\ lastCall' = RegistryCall("list", prefix, "", <<>>, 0,
                                {[path |-> pathJoin(prefix, e.path), method |-> e.method,
                                  config |-> e.config,
                                  versions |-> configs[e.config].versions] :
                                    e \in {f \in mapping :
                                              f.version = AddVersions(<<>>)[1]}})
    /\ UNCHANGED <<processVars, introspectionVars, configs, setupVars, requestVars,
                   matcherVars, pipelineVars>>

\* a request arrives at the outer router
NewRequest(rq) ==
    /\ phase \in {"setup", "done", "hung"}
    /\ Len(regs) > 0
    /\ phase' = "routing"
    /\ req' = rq
    /\ idx' = 1
    /\ version' = Undefined
    /\ matches' = "none"
    /\ stamp' = NoStamp
    /\ res' = NoResponse
    /\ invoked' = <<>>
    /\ verified' = <<>>
    /\ args' = <<>>
    /\ calls' = <<>>
    /\ UNCHANGED <<processVars, registryVars, introspectionVars, setupVars, matcherVars, pipelineVars>>

\* express passes over a layer whose path or method does not answer the request
LayerSkip ==
    /\ phase = "routing"
    /\ idx <= Len(stack)
    /\ ~RouteMatches(stack[idx], req)
    /\ idx' = idx + 1
    /\ UNCHANGED <<processVars, registryVars, introspectionVars, setupVars, matcherVars, pipelineVars, phase, req, version,
                   matches, stamp,
                   res, invoked, verified, args, calls>>

\* exports.parseVersion(req, res, next) as the handler of the layer at idx,
\* with the delegation to the generated router and the closing next()
ParseVersion ==
    /\ phase = "routing"
    /\ idx <= Len(stack)
    /\ RouteMatches(stack[idx], req)
    /\ LET this == BoundThis(stack[idx])
           v    == ExtractVersion(req, this.configuration.paramOrder, 1, Undefined)
           a    == ValidatorAnswers(this)
           m    == a /\ Validator(this, v)
           stamp1 == IF m /\ this.configuration.passVersion
                     THEN [set |-> TRUE, incomingVersion |-> v,
                           acceptedVersion |-> ReadAcceptedVersion(this)]
                     ELSE stamp
           res1 == IF m THEN SetResponseHeader(this, res) ELSE res
           st0  == [res |-> res1, invoked |-> invoked, verified |-> verified,
                    args |-> args, calls |-> calls]
           st   == IF m
                   THEN RouterHandle(routers[this.router].routes, 1, req,
                                     stamp1.incomingVersion, st0)
                   ELSE st0
       IN  /\ version' = v
           /\ matches' = IF ~a THEN "silent" ELSE IF m THEN "yes" ELSE "no"
           /\ stamp' = stamp1
           /\ res' = st.res
           /\ invoked' = st.invoked
           /\ verified' = st.verified
           /\ args' = st.args
           /\ calls' = st.calls
           /\ idx' = IF a THEN idx + 1 ELSE idx
           /\ phase' = IF a THEN phase ELSE "hung"
    /\ UNCHANGED <<processVars, registryVars, introspectionVars, setupVars, matcherVars, pipelineVars, req>>

\* the outer stack is exhausted: express' final handler answers 404 unless a
\* response has been sent
Finalize ==
    /\ phase = "routing"
    /\ idx > Len(stack)
    /\ phase' = "done"
    /\ res' = Respond(res, 404, 0)
    /\ UNCHANGED <<processVars, registryVars, introspectionVars, setupVars, matcherVars, pipelineVars, req, idx, version,
                   matches, stamp, invoked, verified, args, calls>>

\* router.endpoints read (prefix the configured one) or router.api answering
\* (prefix taken from the request's url): the endpoint map under the prefix
ListEndpoints(prefix) ==
    /\ phase = "setup"
    /\ Len(regs) > 0
    /\ listed' = [read |-> TRUE, prefix |-> prefix, at |-> Len(regs),
                  map |-> EndpointsList(mapping, prefix, AddVersions(<<>>)[1])]
    /\ UNCHANGED <<processVars, registryVars, setupVars, requestVars, matcherVars, pipelineVars>>

\* validateVersion called on its own
Validate ==
    /\ vResult = "none"
    /\ vResult' = IF validateVersion(vIncoming, vAccept) THEN "true" ELSE "false"
    /\ UNCHANGED <<processVars, registryVars, introspectionVars, vIncoming, vAccept, setupVars, requestVars, pipelineVars>>

\* parseParam called on every parameter of api.params
ParseParam ==
    /\ pStage = "given"
    /\ pDefs' = [param \in DOMAIN pSpecs |-> parseParam(pSpecs[param])]
    /\ pStage' = IF \E param \in DOMAIN pSpecs : parseParam(pSpecs[param]) = ParamThrow
                 THEN "threw" ELSE "parsed"
    /\ UNCHANGED <<processVars, registryVars, introspectionVars, setupVars, requestVars, matcherVars,
                   pSpecs, pOrder, pReq, pParams, pErrors, pArgs>>

\* getParams called on the parsed configuration and the request
GetParams ==
    /\ pStage = "parsed"
    /\ LET got == getParams([paramOrder |-> pOrder, params |-> pDefs], pReq)
       IN  /\ pParams' = got.params
           /\ pStage' = IF got.threw THEN "threw" ELSE "got"
    /\ UNCHANGED <<processVars, registryVars, introspectionVars, setupVars, requestVars, matcherVars,
                   pSpecs, pOrder, pReq, pDefs, pErrors, pArgs>>

\* checkParams called on what getParams returned
CheckParams ==
    /\ pStage = "got"
    /\ pErrors' = checkParams([paramOrder |-> pOrder, params |-> pDefs], pParams)
    /\ pStage' = "checked"
    /\ UNCHANGED <<processVars, registryVars, introspectionVars, setupVars, requestVars, matcherVars,
                   pSpecs, pOrder, pReq, pDefs, pParams, pArgs>>

\* fillParams called on what getParams returned
FillParams ==
    /\ pStage = "checked"
    /\ pArgs' = fillParams([paramOrder |-> pOrder, params |-> pDefs], pParams)
    /\ pStage' = "filled"
    /\ UNCHANGED <<processVars, registryVars, introspectionVars, setupVars, requestVars, matcherVars,
                   pSpecs, pOrder, pReq, pDefs, pParams, pErrors>>

\* fillParams called once more, on the object it returned
FillAgain ==
    /\ pStage = "filled"
    /\ pArgs' = fillParams([paramOrder |-> pOrder, params |-> pDefs], pArgs)
    /\ pStage' = "refilled"
    /\ UNCHANGED <<processVars, registryVars, introspectionVars, setupVars, requestVars, matcherVars,
                   pSpecs, pOrder, pReq, pDefs, pParams, pErrors>>

\* ----------------------------------------------------------------- inputs
\* the version values of a request's sources: at most n of the sources
\* `names` carry one of `values`, every other source carries nothing
RequestSources(names, values, n) ==
    {f \in [Sources -> values \cup {Undefined}] :
        /\ \A s \in Sources \ names : f[s] = Undefined
        /\ Cardinality({s \in Sources : f[s] # Undefined}) <= n
        /\ f["params"] # EmptyString}

\* accepted-version lists registered in the dispatch specification
DispatchLists ==
    {<<>>,
     <<NumberSpec(<<1>>)>>,
     <<NumberSpec(<<2>>)>>,
     <<RangeSpec("^", <<1>>)>>,
     <<RegExpSpec("has", {1})>>,
     <<RegExpSpec("any", {})>>}

DispatchRequests ==
    {[method |-> m, path |-> "/test", src |-> f, vals |-> NoProps] :
        m \in {"GET", "POST"},
        f \in RequestSources({"params", "query", "header"}, {<<1>>, <<2>>}, 1)}

\* router configurations of the resolver specification
ResolveConfigs ==
    {[paramOrder |-> o, responseHeader |-> h, passVersion |-> p,
      error |-> "none", success |-> "none", validate |-> "none"] :
        o \in {defaultConfig.paramOrder,
               <<"header", "body", "cookie", "query", "params">>},
        h \in BOOLEAN, p \in BOOLEAN}

ResolveLists ==
    {<<>>,
     <<NumberSpec(<<1>>)>>,
     <<RangeSpec("^", <<1>>), NumberSpec(<<2>>)>>}

ResolveRequests ==
    {[method |-> "GET", path |-> "/test", src |-> f, vals |-> NoProps] :
        f \in RequestSources({"params", "query", "header"},
                              {<<1>>, <<2>>, EmptyString}, MaxSources)}

\* the elements of accepted-version lists handed to the matcher on its own
CoreElems ==
    {NumberSpec(<<c>>) : c \in Comps}
    \cup {NumberSpec(<<1, d>>) : d \in 1..MaxComp}
    \cup {RangeSpec(op, <<c>>) : op \in {"", "^", ">="}, c \in Comps}
    \cup {RangeSpec("*", <<>>)}
    \cup {RegExpSpec("has", {c}) : c \in Comps}
    \cup {RegExpSpec("any", {})}
    \cup {SlashSpec("/has/", {c}) : c \in Comps}
    \cup {SlashSpec("/any/", {})}

\* ranges over two- and three-component partial versions, used alone
LongRanges ==
    {RangeSpec(op, v) : op \in {"", "^", ">="},
                        v \in [1..2 -> Comps] \cup [1..3 -> Comps]}

\* the elements of the lists of two and more elements
ListElems ==
    {NumberSpec(<<1>>), NumberSpec(<<2>>),
     RangeSpec("", <<1>>), RangeSpec("^", <<2>>), RangeSpec("*", <<>>),
     RegExpSpec("has", {0}), RegExpSpec("has", {1}), RegExpSpec("any", {}),
     SlashSpec("/has/", {1}), SlashSpec("/has/", {2})}

AcceptLists ==
    {<<>>}
    \cup {<<e>> : e \in CoreElems \cup LongRanges}
    \cup UNION {[1..n -> ListElems] : n \in 2..MaxList}

\* the types a parameter is declared with ("something" is no type)
ParamTypes ==
    {"string", "number", "float", "integer", "bool", "boolean", "something"}

\* the texts written between the parentheses of a parameter text
InnerTexts ==
    {<<>>, <<"0">>, <<"2", "0">>, <<"2", ".", "5">>, <<" ", "1">>,
     <<"h", "i">>, <<"f", "a", "l", "s", "e">>, <<"T", "r", "u", "e">>,
     <<"1", ",", "2">>, <<"a", ",", " ", "b">>, <<"2", ",", ",", " ", "1", " ">>,
     <<"f", "a", "l", "s", "e", ",", " ", "t", "r", "u", "e", ",", "t", "r", "u", "e">>}

StringParams ==
    {StringParam(type, brackets, FALSE, <<>>) :
        type \in ParamTypes, brackets \in BOOLEAN}
    \cup {StringParam(type, brackets, TRUE, inner) :
        type \in ParamTypes, brackets \in BOOLEAN, inner \in InnerTexts}

\* the ways `required` is written in a parameter object
RequiredGiven ==
    {JsUndefined, JsBoolean(TRUE), JsBoolean(FALSE), JsNumber(0), JsNumber(10),
     JsString(<<"f", "a", "l", "s", "e">>), JsString(<<"t", "r", "u", "e">>),
     JsString(<<"n", "o">>), JsString(<<"y", "e", "s">>)}

DefaultGiven ==
    {JsUndefined, JsNumber(0), JsNumber(200), JsBoolean(FALSE), JsBoolean(TRUE),
     JsString(<<>>), JsString(<<"t", "e", "s", "t">>)}

ObjectParams ==
    {ObjectParam(type, required, default, array, JsUndefined, JsUndefined, "none") :
        type \in {"string", "number"}, required \in RequiredGiven,
        default \in DefaultGiven, array \in {JsUndefined, JsBoolean(TRUE)}}

\* a key that a raw object does not have
NoValue ==
    JsValue("absent", 0, <<>>, <<>>)

\* the object with the keys of f that carry a value
PickObject(f) ==
    [key \in {k \in DOMAIN f : f[k] # NoValue} |-> f[key]]

\* the raw objects of a request with the declared keys name and age and the
\* undeclared key id
ExtractObjects ==
    {PickObject(f) :
        f \in {g \in [{"name", "age", "id"} -> {NoValue, JsString(<<>>), JsString(<<"D">>),
                                               JsString(<<"3", "0">>), JsString(<<"x">>),
                                               JsString(<<"7">>)}] :
                  /\ g["name"] \in {NoValue, JsString(<<>>), JsString(<<"D">>)}
                  /\ g["age"] \in {NoValue, JsString(<<"3", "0">>), JsString(<<"x">>)}
                  /\ g["id"] \in {NoValue, JsString(<<"7">>)}}}

\* requests in which at most MaxSources of params, query and body hold keys
ExtractRequests ==
    {f \in [Sources -> ExtractObjects] :
        /\ f["cookie"] = <<>> /\ f["header"] = <<>>
        /\ Cardinality({src \in Sources : f[src] # <<>>}) <= MaxSources}

ExtractSpecs ==
    [name |-> StringParam("string", FALSE, FALSE, <<>>),
     age  |-> StringParam("number", FALSE, FALSE, <<>>)]

\* the parameter objects the checks are run on
CheckedParams ==
    {ObjectParam(type, required, JsUndefined, array, min, max, validate) :
        type \in {"string", "number", "integer", "boolean"},
        required \in {JsUndefined, JsBoolean(FALSE)},
        array \in {JsUndefined, JsBoolean(TRUE)},
        min \in {JsUndefined, JsNumber(10), JsNumber(20)},
        max \in {JsUndefined, JsNumber(20)},
        validate \in {"none", "fail", "pass", "echo"}}

\* the raw values the checked parameter comes with
CheckedValues ==
    {NoValue, JsString(<<>>), JsString(<<"0">>), JsString(<<"1">>), JsString(<<"2">>),
     JsString(<<"3">>), JsString(<<"f", "a", "l", "s", "e">>), JsString(<<"a", "b">>),
     JsString(<<"a", "b", "c">>), JsString(<<"1", ",", "2">>), JsArray(<<>>)}

\* --------------------------------------------------------- specifications
InitRouter ==
    /\ regs = <<>>
    /\ routers = <<>>
    /\ stack = <<>>
    /\ mapping = {}
    /\ attempt = NoAttempt
    /\ phase = "setup"
    /\ req = NoRequest
    /\ idx = 0
    /\ version = Undefined
    /\ matches = "none"
    /\ stamp = NoStamp
    /\ res = NoResponse
    /\ invoked = <<>>
    /\ verified = <<>>
    /\ args = <<>>
    /\ calls = <<>>
    /\ listed = NotListed
    /\ configs = <<>>
    /\ lastCall = NoCall

\* the process runs in production mode
InitProcess ==
    env = ""

InitMatcher ==
    /\ vIncoming = Undefined
    /\ vAccept = <<>>
    /\ vResult = "none"

\* the pipeline before it is handed anything
InitPipeline ==
    /\ pSpecs = <<>>
    /\ pOrder = defaultConfig.paramOrder
    /\ pReq = NoProps
    /\ pDefs = <<>>
    /\ pParams = <<>>
    /\ pErrors = <<>>
    /\ pArgs = <<>>
    /\ pStage = "none"

\* the router with its default configuration: registrations, then requests
Init ==
    /\ configuration = defaultConfig
    /\ InitRouter
    /\ InitProcess
    /\ InitMatcher
    /\ InitPipeline

Next ==
    \/ \E m \in {"get", "all"}, p \in {"/test", "/:id"}, vs \in DispatchLists,
          a \in {"none", "open"}, h \in {"end", "next"} : Register(m, p, vs, a, h)
    \/ \E rq \in DispatchRequests : NewRequest(rq)
    \/ LayerSkip
    \/ ParseVersion
    \/ Finalize

Spec == Init /\ [][Next]_vars

\* the resolver under every configuration, one path and method
InitResolve ==
    /\ configuration \in ResolveConfigs
    /\ InitRouter
    /\ InitProcess
    /\ InitMatcher
    /\ InitPipeline

NextResolve ==
    \/ \E vs \in ResolveLists, h \in {"end", "next"} :
          Register("get", "/test", vs, "none", h)
    \/ \E rq \in ResolveRequests : NewRequest(rq)
    \/ LayerSkip
    \/ ParseVersion
    \/ Finalize

SpecResolve == InitResolve /\ [][NextResolve]_vars

\* the matcher called on its own, on every incoming value and accepted list
InitMatch ==
    /\ configuration = defaultConfig
    /\ InitRouter
    /\ InitProcess
    /\ vIncoming \in Incomings
    /\ vAccept \in AcceptLists
    /\ vResult = "none"
    /\ InitPipeline

NextMatch == Validate

SpecMatch == InitMatch /\ [][NextMatch]_vars

\* the router with declared parameters: one path and method, registrations
\* for no version, 1 or 2, requests with the version in the path or nowhere
ApiRegistrations ==
    {<<<<>>, "vars">>, <<<<NumberSpec(<<1>>)>>, "vars">>,
     <<<<NumberSpec(<<1>>)>>, "one">>, <<<<NumberSpec(<<2>>)>>, "two">>}

ApiQueries ==
    {<<>>,
     [var1 |-> JsString(<<"2", "5">>)],
     [var1 |-> JsString(<<"x">>)],
     [var1 |-> JsString(<<"2", "5">>), var2 |-> JsString(<<"x">>)],
     [a |-> JsString(<<"1">>), b |-> JsString(<<"2">>)]}

ApiRequests ==
    {[method |-> "GET", path |-> "/test", src |-> f,
      vals |-> [NoProps EXCEPT !["query"] = g]] :
        f \in RequestSources({"params"}, {<<1>>, <<2>>}, 1), g \in ApiQueries}

InitApi ==
    /\ configuration = defaultConfig
    /\ InitRouter
    /\ InitProcess
    /\ InitMatcher
    /\ InitPipeline

NextApi ==
    \/ \E r \in ApiRegistrations : Register("get", "/test", r[1], r[2], "end")
    \/ \E rq \in ApiRequests : NewRequest(rq)
    \/ LayerSkip
    \/ ParseVersion
    \/ Finalize
    \/ \E prefix \in {"", "/prefix"} : ListEndpoints(prefix)

SpecApi == InitApi /\ [][NextApi]_vars

\* the router with hooks: router-wide error, success or validate options,
\* production or development mode, registrations of /test and /other that
\* declare a required parameter with or without hooks of their own
HookConfigs ==
    {[defaultConfig EXCEPT !.error = e, !.success = u, !.validate = v] :
        e \in {"none", "answer"}, u \in {"none", "proceed"}, v \in {"none", "pass"}}

HookRegistrations ==
    {<<"/test", <<NumberSpec(<<1>>)>>, "need">>,
     <<"/test", <<NumberSpec(<<1>>)>>, "needE">>,
     <<"/test", <<NumberSpec(<<1>>)>>, "needS">>,
     <<"/test", <<NumberSpec(<<1>>)>>, "needV">>,
     <<"/test", <<NumberSpec(<<1>>)>>, "flag">>,
     <<"/test", <<>>, "need">>,
     <<"/other", <<RangeSpec("^", <<1>>)>>, "need">>}

\* p arrives in the query string, f in a JSON body as the number 1
HookValues ==
    {NoProps,
     [NoProps EXCEPT !["query"] = [p |-> JsString(<<"5">>)]],
     [NoProps EXCEPT !["body"] = [f |-> JsNumber(10)]]}

HookRequests ==
    {[method |-> "GET", path |-> "/test", src |-> f, vals |-> g] :
        f \in RequestSources({"params"}, {<<1>>}, 1), g \in HookValues}

InitHooks ==
    /\ configuration \in HookConfigs
    /\ env \in {"", "development"}
    /\ InitRouter
    /\ InitMatcher
    /\ InitPipeline

NextHooks ==
    \/ \E r \in HookRegistrations : Register("get", r[1], r[2], r[3], "end")
    \/ \E rq \in HookRequests : NewRequest(rq)
    \/ LayerSkip
    \/ ParseVersion
    \/ Finalize

SpecHooks == InitHooks /\ [][NextHooks]_vars

\* registration calls, valid and invalid, followed by requests
RegisterCalls ==
    {<<p, x, a>> : p \in {"/test", "/v:v/test", NotAPath},
                  x \in {"none", "boolean", "undefined"},
                  a \in {"none", "need", "typo"}}

InitRegister ==
    /\ configuration = defaultConfig
    /\ InitRouter
    /\ InitProcess
    /\ InitMatcher
    /\ InitPipeline

NextRegister ==
    \/ \E c \in RegisterCalls, vs \in {<<>>, <<NumberSpec(<<1>>)>>} :
           Register("get", c[1], vs, c[3], "end")
    \/ \E c \in RegisterCalls : RegisterRejected("get", c[1], c[2], c[3])
    \/ \E rq \in HookRequests : NewRequest(rq)
    \/ LayerSkip
    \/ ParseVersion
    \/ Finalize

SpecRegister == InitRegister /\ [][NextRegister]_vars

\* the registry called on its own, as the tests of the verifier do
InitEndpoints ==
    /\ configuration = defaultConfig
    /\ InitRouter
    /\ InitProcess
    /\ InitMatcher
    /\ InitPipeline

NextEndpoints ==
    \/ \E path \in {"/test", "/v:v/test"}, method \in {"get", "post"},
          versions \in {<<>>, <<NumberSpec(<<1>>)>>,
                        <<NumberSpec(<<1>>), NumberSpec(<<2>>)>>},
          config \in 1..MaxRegs : AddEndpoint(path, method, versions, config)
    \/ \E path \in {"/test", "/v:v/test"}, method \in {"GET", "POST"},
          incomingVersion \in {Undefined, <<1>>} :
              GetEndpoint(path, method, incomingVersion)
    \/ \E prefix \in {"", "/prefix"} : ListRegistry(prefix)

SpecEndpoints == InitEndpoints /\ [][NextEndpoints]_vars

\* fillParams called on its own: one declared parameter p, given as a text,
\* and a parameter object that may hold p and the undeclared key origin
FillSpecs ==
    {StringParam("number", FALSE, TRUE, <<"3", "0">>),
     StringParam("number", FALSE, TRUE, <<"0">>),
     StringParam("number", FALSE, FALSE, <<>>),
     StringParam("bool", FALSE, TRUE, <<"f", "a", "l", "s", "e">>),
     StringParam("string", FALSE, TRUE, <<"f", "o", "o">>),
     StringParam("string", FALSE, TRUE, <<>>)}

FillObjects ==
    {PickObject([p |-> v, origin |-> o]) :
        v \in {NoValue, JsUndefined, JsNumber(0), JsNumber(250), JsBoolean(FALSE),
                JsString(<<>>), JsString(<<"3", "0">>)},
        o \in {NoValue, JsString(<<"u">>), JsNumber(0)}}

InitFill ==
    /\ configuration = defaultConfig
    /\ InitRouter
    /\ InitProcess
    /\ InitMatcher
    /\ pSpecs \in {[p |-> sp] : sp \in FillSpecs}
    /\ pDefs = [param \in DOMAIN pSpecs |-> parseParam(pSpecs[param])]
    /\ pParams \in FillObjects
    /\ pOrder = defaultConfig.paramOrder
    /\ pReq = NoProps
    /\ pErrors = <<>>
    /\ pArgs = <<>>
    /\ pStage = "checked"

NextFill ==
    \/ FillParams
    \/ FillAgain

SpecFill == InitFill /\ [][NextFill]_vars

\* the parameter pipeline called on its own: parameter texts and objects
\* alone, two declared parameters with requests over several sources, one
\* checked parameter with one raw value
InitPipe ==
    /\ configuration = defaultConfig
    /\ InitRouter
    /\ InitProcess
    /\ InitMatcher
    /\ pDefs = <<>>
    /\ pParams = <<>>
    /\ pErrors = <<>>
    /\ pArgs = <<>>
    /\ pStage = "given"
    /\ \/ /\ pSpecs \in {[p |-> sp] : sp \in StringParams \cup ObjectParams}
          /\ pOrder = defaultConfig.paramOrder
          /\ pReq = NoProps
       \/ /\ pSpecs = ExtractSpecs
          /\ pOrder \in {defaultConfig.paramOrder, <<"body", "query", "params">>}
          /\ pReq \in ExtractRequests
       \/ /\ pSpecs \in {[p |-> sp] : sp \in CheckedParams}
          /\ pOrder = defaultConfig.paramOrder
          /\ pReq \in {[NoProps EXCEPT !["query"] = PickObject([p |-> raw])] :
                         raw \in CheckedValues}

NextPipe ==
    \/ ParseParam
    \/ GetParams
    \/ CheckParams
    \/ FillParams

SpecPipe == InitPipe /\ [][NextPipe]_vars

\* ------------------------------------------------------------------ claims
\* helpers of the claims below
SeqRange(q) ==
    {q[i] : i \in 1..Len(q)}

\* the registration answers requests of this path and method
Answers(r, rq) ==
    MethodCovers(regs[r].method, rq.method) /\ PathMatches(regs[r].path, rq.path)

\* the positions of paramOrder whose source carries a non-empty value
NonEmptyAt(rq, order) ==
    {i \in 1..Len(order) : rq.src[order[i]] \notin {Undefined, EmptyString}}

\* the request carries a version in none of the configured sources
NoVersionSignal(rq) ==
    NonEmptyAt(rq, configuration.paramOrder) = {}

\* the value of the first source, in paramOrder, that carries a non-empty value
FirstNonEmpty(rq, order) ==
    LET hits == NonEmptyAt(rq, order)
    IN  IF hits = {} THEN Undefined
        ELSE rq.src[order[CHOOSE i \in hits : \A j \in hits : i <= j]]

\* the layers parseVersion has run on for the request in flight
RanOn ==
    {i \in 1..Len(stack) : i < idx /\ RouteMatches(stack[i], req)}

\* the registration of the layer parseVersion ran on last
LastRunReg ==
    stack[CHOOSE i \in RanOn : \A j \in RanOn : j <= i].reg

\* parseFloat(value) in tenths, NaN when the text does not start with a number
ParseFloat10(value) ==
    LET s == Stringify(value)
    IN  IF s[1] < 0 THEN NaN
        ELSE 10 * s[1] + (IF Len(s) >= 2 /\ s[2] >= 0 THEN s[2] ELSE 0)

\* a one- or two-component text with '.0' appended up to three components
PadToThree(s) ==
    [i \in 1..3 |-> IF i <= Len(s) THEN s[i] ELSE 0]

\* C1: a request dispatched on a router whose one registration is made for
\* this path and method without a version reaches the registration's handler,
\* whatever version it carries, and when the registration has an endpoint
\* configuration verify found that configuration and passed the request on.
C1_UnversionedCatchAll ==
    (phase = "done" /\ Len(regs) = 1 /\ regs[1].version = <<>>
        /\ regs[1].method = "get" /\ Answers(1, req))
    => /\ 1 \in SeqRange(invoked)
       /\ regs[1].api # "none" =>
            verified = <<[route |-> 1, config |-> 1, outcome |-> "next"]>>

\* C2: a request without a version signal, dispatched on a router whose one
\* registration has a non-empty version list (number, range or pattern), runs
\* no handler and ends as 404.
C2_NoVersionNeverVersioned ==
    (phase = "done" /\ Len(regs) = 1 /\ regs[1].version # <<>> /\ NoVersionSignal(req))
    => invoked = <<>> /\ res.status = 404

\* C3: every registration whose handler ran for the request accepts the
\* request's incoming version and covers the request's method.
C3_HandlerOnlyForMatchingVersion ==
    \A r \in SeqRange(invoked) :
        /\ validateVersion(FirstNonEmpty(req, configuration.paramOrder), regs[r].version)
        /\ MethodCovers(regs[r].method, req.method)

\* C4: among the registrations answering the request's path and method, the
\* first one in registration order that accepts the incoming version is the
\* one whose handler runs first; when none accepts it no handler runs and the
\* request ends as 404.
C4_FirstMatchingHandles ==
    (phase = "done" /\ \A r \in 1..Len(regs) : regs[r].api = "none")
    => LET v    == FirstNonEmpty(req, configuration.paramOrder)
           hits == {r \in 1..Len(regs) :
                       Answers(r, req) /\ validateVersion(v, regs[r].version)}
       IN  IF hits = {}
           THEN invoked = <<>> /\ res.status = 404
           ELSE /\ invoked # <<>>
                /\ invoked[1] = CHOOSE r \in hits : \A q \in hits : r <= q

\* C5: for a single numeric accepted version n the matcher reports a match
\* iff parseFloat(incoming) == n.
C5_NumericMatchIsParseFloat ==
    (vResult # "none" /\ Len(vAccept) = 1 /\ vAccept[1].k = "number")
    => ((vResult = "true") <=>
            (ParseFloat10(vIncoming) # NaN
             /\ ParseFloat10(vIncoming) = NumberValue10(vAccept[1])))

\* C6: for a non-empty accepted list the matcher reports a match iff some
\* element, handed to the matcher alone with the same raw incoming version,
\* reports a match.
C6_ListMatchesIffSomeElement ==
    (vResult # "none" /\ Len(vAccept) >= 1)
    => ((vResult = "true") <=>
            \E i \in 1..Len(vAccept) : validateVersion(vIncoming, <<vAccept[i]>>))

\* C7: against a single range string, a one- or two-component incoming
\* version gives the result of the same version padded with '.0' to three
\* components; semverizeVersion pads to three components, leaves three or
\* more components unchanged and is idempotent.
C7_SemverizePadsAndRangeAgrees ==
    LET s == Stringify(vIncoming)
    IN  /\ Len(s) <= 3 => semverizeVersion(vIncoming) = PadToThree(s)
        /\ Len(s) >= 3 => semverizeVersion(vIncoming) = s
        /\ semverizeVersion(semverizeVersion(vIncoming)) = semverizeVersion(vIncoming)
        /\ (vResult # "none" /\ Len(vAccept) = 1 /\ vAccept[1].k = "string"
              /\ ~IsSlashString(vAccept[1]) /\ vIncoming # Undefined /\ Len(s) <= 2)
           => ((vResult = "true") <=> validateVersion(PadToThree(s), vAccept))

C7_Witness ==
    /\ vResult = "true"
    /\ vIncoming = <<1, 2>>
    /\ vAccept = <<RangeSpec("^", <<1, 1>>)>>

C9_RequestStampedWithVersions ==
    /\ (matches = "yes" /\ configuration.passVersion /\ regs[LastRunReg].version # <<>>)
       => /\ stamp.set
          /\ stamp.incomingVersion = version
          /\ stamp.acceptedVersion = [defined |-> TRUE, value |-> regs[LastRunReg].version]
    /\ ~configuration.passVersion => stamp = NoStamp

Parsed ==
    pStage \in {"parsed", "got", "checked", "filled"}

\* getParams has run and did not throw
Extracted ==
    pStage \in {"got", "checked", "filled"}

\* checkParams has run
Checked ==
    pStage \in {"checked", "filled"}

\* the type names parseValue knows
ScalarTypes ==
    {"string", "number", "float", "double", "integer", "short", "bool", "boolean"}

\* the positions of the order whose source holds the key
HoldingAt(props, order, key) ==
    {i \in 1..Len(order) : key \in DOMAIN props[order[i]]}

\* the raw value of the key on the first source of the order that holds it
FirstHeld(props, order, key) ==
    LET hits == HoldingAt(props, order, key)
    IN  props[order[CHOOSE i \in hits : \A j \in hits : i <= j]][key]

\* C14: a parameter text of a known type parses to a definition that is
\* required iff the text has no parentheses and an array iff it has '[]';
\* without parentheses or with empty ones there is no default; with a text in
\* the parentheses of a non-array parameter the default is that text coerced
\* to the type, so number(0) has the default 0 and bool(false) the default
\* false.
C14_StringSpecShape ==
    Parsed =>
      \A param \in DOMAIN pSpecs :
        LET str == pSpecs[param]
            def == pDefs[param]
        IN  (str.k = "string" /\ str.type \in ScalarTypes) =>
              /\ def.type = str.type
              /\ def.required = ~str.parens
              /\ def.array = str.brackets
              /\ (~str.parens \/ str.inner = <<>>) => def.default = JsUndefined
              /\ (str.parens /\ ~str.brackets) =>
                    def.default = ParseScalar(str.type, JsString(str.inner))
              /\ str = StringParam("number", FALSE, TRUE, <<"0">>) =>
                    def.default = JsNumber(0)
              /\ str = StringParam("bool", FALSE, TRUE, <<"f", "a", "l", "s", "e">>) =>
                    def.default = JsBoolean(FALSE)

C14_Witness ==
    /\ pStage = "parsed"
    /\ pSpecs = [p |-> StringParam("number", FALSE, TRUE, <<"0">>)]
    /\ pDefs["p"].default = JsNumber(0)
    /\ ~pDefs["p"].required

\* C15: an array parameter text T[](a,b,c) of a known type parses to the
\* default [coerce(T,a), coerce(T,b), coerce(T,c)], each element trimmed of
\* blanks before it is coerced.
C15_ArrayDefaultTrimmed ==
    Parsed =>
      \A param \in DOMAIN pSpecs :
        LET str   == pSpecs[param]
            parts == split(str.inner, 1)
        IN  (str.k = "string" /\ str.type \in ScalarTypes /\ str.brackets
               /\ str.parens /\ str.inner # <<>>) =>
              pDefs[param].default =
                  JsArray([i \in 1..Len(parts) |->
                              ParseScalar(str.type, JsString(trim(parts[i])))])

\* C16: a parameter object parses to a definition whose default is the given
\* default (0 and false included) and whose required is the given required
\* read as a boolean, or, when none is given, the negation of "a default is
\* given".
C16_ObjectRequiredNormalized ==
    Parsed =>
      \A param \in DOMAIN pSpecs :
        LET str == pSpecs[param]
            def == pDefs[param]
        IN  str.k = "object" =>
              /\ def.default = str.default
              /\ def.required = IF str.required = JsUndefined
                                THEN str.default = JsUndefined
                                ELSE str.required \notin RequiredOff

\* C17: getParams returns, for each declared parameter that some source
\* holds, the coerced raw value of the first source in paramOrder that holds
\* it, and nothing for any other key.
C17_FirstSourceHoldingKeyWins ==
    Extracted =>
      /\ DOMAIN pParams \subseteq DOMAIN pDefs
      /\ \A param \in DOMAIN pDefs :
            IF HoldingAt(pReq, pOrder, param) = {}
            THEN Lookup(pParams, param) = JsUndefined
            ELSE Lookup(pParams, param) =
                    parseValue(pDefs[param].type, FirstHeld(pReq, pOrder, param),
                               pDefs[param].array)

\* C18: for a parameter without validate hook and without min and max,
\* checkParams records 'not set' with the type iff the parameter is required
\* and its value is undefined or an empty array; 0 and false count as set.
C18_NotSetIffRequiredAndEmpty ==
    Checked =>
      \A param \in DOMAIN pDefs :
        LET def   == pDefs[param]
            value == Lookup(pParams, param)
            empty == value = JsUndefined \/ value = JsArray(<<>>)
        IN  (def.validate = "none" /\ def.min = JsUndefined /\ def.max = JsUndefined) =>
              IF def.required /\ empty
              THEN /\ param \in DOMAIN pErrors
                   /\ pErrors[param] = MissingInfo(def.type, JsString(<<"not set">>),
                                                   JsUndefined, JsUndefined)
              ELSE param \notin DOMAIN pErrors

\* C19: for an optional scalar parameter of type string or number without
\* validate hook whose value is present, checkParams records 'value below min
\* value' with the min iff a min is configured and the value (a string's
\* length, a number's value) is below it, 'value exceeds max value' with the
\* max iff a max is configured and the value exceeds it, and nothing when the
\* value is within its bounds.
C19_BoundsOnPresentValue ==
    Checked =>
      \A param \in DOMAIN pDefs :
        LET def   == pDefs[param]
            value == Lookup(pParams, param)
            size  == IF value.t = "string" THEN 10 * Len(value.s) ELSE value.n
            below == def.min # JsUndefined /\ size < def.min.n
            above == def.max # JsUndefined /\ size > def.max.n
        IN  (def.validate = "none" /\ ~def.required /\ ~def.array
               /\ def.type \in {"string", "number"} /\ value # JsUndefined) =>
              /\ below => /\ param \in DOMAIN pErrors
                          /\ pErrors[param] =
                                MissingInfo(def.type, JsString(<<"value below min value">>),
                                            def.min, JsUndefined)
              /\ (above /\ ~below) =>
                          /\ param \in DOMAIN pErrors
                          /\ pErrors[param] =
                                MissingInfo(def.type, JsString(<<"value exceeds max value">>),
                                            JsUndefined, def.max)
              /\ (~above /\ ~below) => param \notin DOMAIN pErrors

OneVarsRegistration ==
    /\ Len(regs) = 1
    /\ regs[1].method = "get" /\ regs[1].path = "/test"
    /\ regs[1].version = <<NumberSpec(<<1>>)>>
    /\ regs[1].api = "vars"

\* what the handler that ran last saw as req.args
SeenArgs ==
    IF args = <<>> THEN NoArgs ELSE args[Len(args)]

\* C11: with /test registered for GET, version 1 and the parameters var1:
\* 'number', var2: 'string(foo)', a request without version ends as 404 with
\* no handler run, GET /v1/test without var1 ends as 422 with no handler run,
\* and GET /v1/test?var1=25 ends as 200 after the handler ran with req.args =
\* {var1: 25, var2: 'foo'}.
C11_VersionedParamsScenario ==
    (phase = "done" /\ OneVarsRegistration) =>
        /\ NoVersionSignal(req) => (res.status = 404 /\ invoked = <<>>)
        /\ (req.src["params"] = <<1>> /\ "var1" \notin DOMAIN req.vals["query"]) =>
              (res.status = 422 /\ invoked = <<>>)
        /\ (req.src["params"] = <<1>>
              /\ req.vals["query"] = [var1 |-> JsString(<<"2", "5">>)]) =>
              /\ res.status = 200
              /\ invoked = <<1>>
              /\ SeenArgs = [set |-> TRUE,
                             value |-> [var1 |-> JsNumber(250),
                                        var2 |-> JsString(<<"f", "o", "o">>)]]

C11_Witness ==
    /\ phase = "done"
    /\ OneVarsRegistration
    /\ req.src["params"] = <<1>>
    /\ req.vals["query"] = [var1 |-> JsString(<<"2", "5">>)]
    /\ res.status = 200
    /\ invoked = <<1>>
    /\ SeenArgs.set /\ SeenArgs.value["var1"] = JsNumber(250)

\* C12: whatever Endpoints.get handed to verify is one endpoint
\* configuration, that of a registration for the request's path and method
\* one of whose versions matches the incoming version, and never an aggregate
\* of buckets; and with version 1 declaring only a and version 2 only b, a
\* version-2 request that passed verify has b populated and a absent.
C12_GetYieldsOneMatchingConfig ==
    /\ \A k \in 1..Len(verified) :
          LET config == verified[k].config
          IN  /\ config # Aggregate
              /\ config # NoConfig =>
                    /\ config \in 1..Len(regs)
                    /\ Answers(config, req)
                    /\ \E j \in 1..Len(AddVersions(regs[config].version)) :
                          validateVersion(IF stamp.incomingVersion = Undefined THEN <<0>>
                                          ELSE stamp.incomingVersion,
                                          <<AddVersions(regs[config].version)[j]>>)
    /\ (/\ phase = "done" /\ Len(regs) = 2
        /\ regs[1].api = "one" /\ regs[2].api = "two"
        /\ req.src["params"] = <<2>> /\ res.status = 200) =>
          (SeenArgs.set /\ DOMAIN SeenArgs.value = {"b"})

\* C13: once the endpoint map has been read, every registration made with an
\* api configuration until then has an entry in it under its prefixed path
\* and its method, whatever version list it was registered under.
C13_ListHoldsEveryEndpoint ==
    listed.read =>
        \A r \in 1..listed.at :
            regs[r].api # "none" =>
                \E e \in listed.map :
                    /\ e.path = pathJoin(listed.prefix, regs[r].path)
                    /\ e.method = toUpperCase(regs[r].method)
                    /\ e.versions = AddVersions(regs[e.config].version)

\* C21: what fillParams returned holds the default of every declared
\* parameter whose value was undefined, every other value as it was (0,
\* false and the empty string included), the undeclared keys untouched and no
\* further key; the same holds after it was applied to its own result; and
\* the text number(30) without incoming value fills to the number 30.
C21_FillOnlyUndefinedDeclared ==
    pStage \in {"filled", "refilled"} =>
        /\ DOMAIN pArgs = DOMAIN pParams \cup DOMAIN pDefs
        /\ \A param \in DOMAIN pArgs :
              IF param \in DOMAIN pDefs /\ Lookup(pParams, param) = JsUndefined
              THEN pArgs[param] = pDefs[param].default
              ELSE pArgs[param] = pParams[param]
        /\ (/\ pSpecs = [p |-> StringParam("number", FALSE, TRUE, <<"3", "0">>)]
            /\ "p" \notin DOMAIN pParams) =>
              (pArgs["p"] = JsNumber(300) /\ pArgs["p"] # JsString(<<"3", "0">>))

C21_Witness ==
    /\ pStage = "refilled"
    /\ pSpecs = [p |-> StringParam("number", FALSE, TRUE, <<"3", "0">>)]
    /\ pParams = [origin |-> JsString(<<"u">>)]
    /\ pArgs = [p |-> JsNumber(300), origin |-> JsString(<<"u">>)]

\* the terminal calls of the verify calls made for the request in progress,
\* each with the entry of `verified` it belongs to
TerminalCalls ==
    UNION {{[entry |-> verified[i], call |-> calls[i][j]] : j \in 1..Len(calls[i])} :
              i \in 1..Len(calls)}

\* C22: when verify rejects a request with 422 for a configuration it found
\* (extraction threw or checkParams reported errors, no error hook), the
\* handler of that route is not run, and the response carries a body, which
\* is {error: "Required parameters are missing", params: the failing
\* parameters}, only in development mode: in production every 422 has an
\* empty body.
C22_RejectionBodyOnlyInDevelopment ==
    \A t \in TerminalCalls :
        (t.call.kind = "422" /\ t.entry.config # Aggregate) =>
            /\ t.entry.route \notin {invoked[k] : k \in 1..Len(invoked)}
            /\ IF env = "development"
               THEN /\ t.call.payload.shape = "body"
                    /\ t.call.payload.error = "Required parameters are missing"
                    /\ DOMAIN t.call.payload.params # {}
               ELSE t.call.payload = NoPayload

\* the registrations that brought an api configuration
Configured ==
    {r \in 1..Len(regs) : regs[r].api # "none"}

\* C23: verify hands a failure to the endpoint's error hook if there is one
\* and otherwise to the router-wide error hook, so that its own 422 is sent
\* only when neither is configured; and after configure the error, validate
\* and success hooks of every parameter are the first defined among the
\* parameter's own, the endpoint's and the router-wide one.
C23_ErrorHookEndpointThenRouter ==
    /\ \A t \in TerminalCalls :
           (t.call.kind = "422" /\ t.entry.config \in Configured) =>
               FirstHook("none", ApiError(regs[t.entry.config].api), configuration.error) = "none"
    /\ \A r \in Configured :
           ParamHooks(regs[r].api, NoHooks) =
               [error    |-> FirstHook("none", ApiError(regs[r].api), configuration.error),
                validate |-> FirstHook("none", ApiValidate(regs[r].api), configuration.validate),
                success  |-> FirstHook("none", ApiSuccess(regs[r].api), configuration.success)]

C25_ValidateOnlyForParameters ==
    /\ \A r \in Configured :
           \A param \in DOMAIN ApiParams(regs[r].api) :
               configure(regs[r].api).params[param].validate =
                   FirstHook("none", ApiValidate(regs[r].api), configuration.validate)
    /\ phase # "hung"
    /\ matches \in {"none", "yes", "no"}
    /\ matches = "yes" => validateVersion(version, BoundThis(stack[idx - 1]).acceptVersion)
    /\ matches = "no" => ~validateVersion(version, BoundThis(stack[idx - 1]).acceptVersion)

\* req[config.paramMap] before the i-th verify call of the request
ArgsBefore(i) ==
    IF i = 1 THEN NoArgs ELSE args[i - 1]

C27_NextOnlyWhenChainFellThrough ==
    /\ [](\A k \in 1..(Len(invoked) - 1) : regs[invoked[k]].handler # "end")
    /\ [][(/\ phase = "routing"
           /\ idx \in 1..Len(stack)
           /\ RouteMatches(stack[idx], req)
           /\ idx' = idx + 1) =>
              /\ matches' = "no" =>
                     invoked' = invoked /\ verified' = verified /\ res' = res
              /\ matches' = "yes" => ~(~res.headersSent /\ res'.headersSent)]_vars

\* the keys an add call writes
WrittenKeys(call) ==
    {[version |-> AddVersions(call.versions)[i], path |-> unversion(call.path),
      method |-> toUpperCase(call.method)] : i \in 1..Len(AddVersions(call.versions))}

KeyOf(e) ==
    [version |-> e.version, path |-> e.path, method |-> e.method]

\* C28: Endpoints.add stores the configuration under every version of the
\* list (bucket 0 for the empty list), keyed by the path without version
\* prefix and the upper-cased method, records the list on config.versions
\* and leaves every entry with another (version, path, method) key as it
\* was; get and list change nothing, and no entry is ever removed.
C28_AddTouchesOnlyItsKeys ==
    [][lastCall' # lastCall =>
          IF lastCall'.op = "add"
          THEN /\ \A k \in WrittenKeys(lastCall') :
                      \E e \in mapping' : KeyOf(e) = k /\ e.config = lastCall'.config
               /\ configs'[lastCall'.config].versions =
                      (IF lastCall'.versions = <<>> THEN <<NumberSpec(<<0>>)>>
                       ELSE lastCall'.versions)
               /\ \A e \in mapping :
                      KeyOf(e) \notin WrittenKeys(lastCall') =>
                          /\ e \in mapping'
                          /\ configs'[e.config] = configs[e.config]
               /\ \A e \in mapping : \E f \in mapping' : KeyOf(f) = KeyOf(e)
          ELSE mapping' = mapping /\ configs' = configs]_vars

\* the registrations made for a method and path
RegistrationsOf(method, path) ==
    {r \in 1..Len(regs) : regs[r].method = method /\ regs[r].path = path}

\* C29: after any sequence of registrations no generated sub-router holds
\* the same (method, path) more than once, and the number of sub-routers is
\* the largest number of registrations made for any single (method, path).
C29_SubRoutersMatchRegistrations ==
    /\ \A i \in 1..Len(routers) :
           \A j, k \in 1..Len(routers[i].routes) :
               (/\ routers[i].routes[j].method = routers[i].routes[k].method
                /\ routers[i].routes[j].path = routers[i].routes[k].path
                /\ routers[i].routes[j].prefixed = routers[i].routes[k].prefixed) => j = k
    /\ \A n \in 0..Len(routers) :
           (\A r \in 1..Len(regs) :
               Cardinality(RegistrationsOf(regs[r].method, regs[r].path)) <= n)
           /\ (n > 0 => \E r \in 1..Len(regs) :
                   Cardinality(RegistrationsOf(regs[r].method, regs[r].path)) = n)
           => n = Len(routers)

\* the api configurations that declare the required parameter p and leave
\* its check to checkParams
RequiresP == {"need", "needE", "needS"}

\* C30: a registration that declares a required parameter never has its
\* handler run for a request lacking that parameter, whatever else is
\* registered, and verify lets a request pass unverified only when no
\* configuration at all is registered for its path and method.
C30_RequiredParamAlwaysEnforced ==
    /\ \A k \in 1..Len(invoked) :
           regs[invoked[k]].api \in RequiresP => "p" \in DOMAIN req.vals["query"]
    /\ \A i \in 1..Len(verified) :
           verified[i].config = NoConfig =>
               ~\E e \in mapping : /\ e.path = regs[verified[i].route].path
                                    /\ e.method = req.method

====
